---- MODULE Spec2Model ----
(***************************************************************************)
(* A model of r2dec-js core2/analysis/ir: the expression simplifier        *)
(* (reduce_expr and its ten rewrite rules) and the graph analyses          *)
(* (Directed, DFSpanningTree, DominatorTree).                              *)
(*                                                                         *)
(* The simplifier works on expression trees.  The expression classes       *)
(* (core2/analysis/ir/expressions) are not part of the analysed source;    *)
(* their operations (constructors, size, equals, replace, iter_operands)   *)
(* are modelled from the specification.                                    *)
(***************************************************************************)
EXTENDS Integers, Sequences, FiniteSets, TLC

(***************************************************************************)
(* Numbers.  A Value's `value` is a JavaScript number.  It is modelled as  *)
(* a record [n, d]:                                                        *)
(*    d > 0        the rational n/d in lowest terms (d = 1: an integer)    *)
(*    n = 0, d = -1   negative zero                                        *)
(*    n = 1, d = 0    Infinity      n = -1, d = 0   -Infinity              *)
(*    n = 0, d = 0    NaN                                                  *)
(* Rounding of non-representable fractions is not modelled.                *)
(***************************************************************************)
Int2Num(i) == [n |-> i, d |-> 1]

NaN == [n |-> 0, d |-> 0]

PosInf == [n |-> 1, d |-> 0]

NegInf == [n |-> -1, d |-> 0]

IsNaN(a) == a.n = 0 /\ a.d = 0

IsInf(a) == a.n # 0 /\ a.d = 0

IsZero(a) == a.n = 0 /\ a.d # 0

IsFinite(a) == a.d # 0

\* the sign bit of a number (NaN carries none that is observable)
SignBit(a) == a.n < 0 \/ (a.n = 0 /\ a.d = -1)

MkZero(neg) == [n |-> 0, d |-> IF neg THEN -1 ELSE 1]

MkInf(neg) == IF neg THEN NegInf ELSE PosInf

AbsInt(i) == IF i < 0 THEN -i ELSE i

RECURSIVE Gcd(_, _)
Gcd(a, b) == IF b = 0 THEN a ELSE Gcd(b, a % b)

\* the rational n/d, d > 0, n # 0, in lowest terms
Norm(n, d) == LET g == Gcd(AbsInt(n), d) IN [n |-> n \div g, d |-> d \div g]

\* the denominator of a finite number (negative zero has denominator 1)
Den(a) == IF a.d < 0 THEN 1 ELSE a.d

\* JavaScript a == b on numbers
NumEq(a, b) ==
    /\ ~IsNaN(a)
    /\ ~IsNaN(b)
    /\ \/ (IsZero(a) /\ IsZero(b))
       \/ a = b

\* JavaScript a < 0
NumLtZero(a) == a.n < 0

\* Math.abs(a)
NumAbs(a) == IF IsZero(a) THEN MkZero(FALSE) ELSE [n |-> AbsInt(a.n), d |-> a.d]

\* unary minus
NumNeg(a) == IF IsZero(a) THEN MkZero(~SignBit(a)) ELSE [n |-> -a.n, d |-> a.d]

\* a + b
NumAdd(a, b) ==
    IF IsNaN(a) \/ IsNaN(b) THEN NaN
    ELSE IF IsInf(a) /\ IsInf(b) THEN (IF a.n = b.n THEN a ELSE NaN)
    ELSE IF IsInf(a) THEN a
    ELSE IF IsInf(b) THEN b
    ELSE LET num == a.n * Den(b) + b.n * Den(a)
             den == Den(a) * Den(b)
         IN  IF num = 0 THEN MkZero(SignBit(a) /\ SignBit(b)) ELSE Norm(num, den)

\* a - b
NumSub(a, b) == NumAdd(a, NumNeg(b))

\* a * b
NumMul(a, b) ==
    LET neg == SignBit(a) # SignBit(b) IN
    IF IsNaN(a) \/ IsNaN(b) THEN NaN
    ELSE IF (IsInf(a) /\ IsZero(b)) \/ (IsZero(a) /\ IsInf(b)) THEN NaN
    ELSE IF IsInf(a) \/ IsInf(b) THEN MkInf(neg)
    ELSE IF IsZero(a) \/ IsZero(b) THEN MkZero(neg)
    ELSE Norm(a.n * b.n, a.d * b.d)

\* a / b
NumDiv(a, b) ==
    LET neg == SignBit(a) # SignBit(b) IN
    IF IsNaN(a) \/ IsNaN(b) THEN NaN
    ELSE IF (IsInf(a) /\ IsInf(b)) \/ (IsZero(a) /\ IsZero(b)) THEN NaN
    ELSE IF IsInf(a) \/ IsZero(b) THEN MkInf(neg)
    ELSE IF IsInf(b) \/ IsZero(a) THEN MkZero(neg)
    ELSE Norm((IF neg THEN -1 ELSE 1) * AbsInt(a.n) * b.d, a.d * AbsInt(b.n))

\* the integer part of the finite rational n/d, rounded toward zero
Trunc(a) ==
    IF Den(a) = 1 THEN a.n
    ELSE IF a.n >= 0 THEN a.n \div Den(a) ELSE -((-a.n) \div Den(a))

\* a % b (the sign of the result is the sign of the dividend)
NumMod(a, b) ==
    IF IsNaN(a) \/ IsNaN(b) THEN NaN
    ELSE IF IsInf(a) \/ IsZero(b) THEN NaN
    ELSE IF IsInf(b) \/ IsZero(a) THEN a
    ELSE LET q == NumDiv(a, b)
             r == NumSub(a, NumMul(b, Int2Num(Trunc(q))))
         IN  IF IsZero(r) THEN MkZero(SignBit(a)) ELSE r

MinInt32 == (-2147483647) - 1

\* ToInt32: the operand of a bitwise operator as a signed 32-bit integer.
\* The model's numbers stay within 32 bits, so only the truncation of
\* fractions and the zeroing of NaN and the infinities are left.
ToInt32(a) == IF ~IsFinite(a) \/ IsZero(a) THEN 0 ELSE Trunc(a)

\* the low k bits of (x op y), x and y in two's complement
RECURSIVE BitsOf(_, _, _, _)
BitsOf(op, x, y, k) ==
    IF k = 0 THEN 0
    ELSE LET bx == x % 2
             by == y % 2
             b  == CASE op = "And" -> IF bx = 1 /\ by = 1 THEN 1 ELSE 0
                    []  op = "Or"  -> IF bx = 1 \/ by = 1 THEN 1 ELSE 0
                    []  op = "Xor" -> IF bx # by THEN 1 ELSE 0
         IN  b + 2 * BitsOf(op, x \div 2, y \div 2, k - 1)

\* a & b, a | b, a ^ b on 32-bit signed integers
BitOp(op, a, b) ==
    LET x    == ToInt32(a)
        y    == ToInt32(b)
        low  == BitsOf(op, x, y, 31)
        sx   == x < 0
        sy   == y < 0
        sign == CASE op = "And" -> sx /\ sy
                 []  op = "Or"  -> sx \/ sy
                 []  op = "Xor" -> sx # sy
    IN  Int2Num(IF sign THEN (low - 2147483647) - 1 ELSE low)

\* 1 << c: the shift count is taken modulo 32
Shl1(c) == LET k == c % 32 IN IF k = 31 THEN MinInt32 ELSE 2 ^ k

\* (1 << size) - 1: the all-ones mask as _correct_bitwise computes it
AllOnes(size) == Shl1(size) - 1

\* ~((1 << c) - 1)
ShlMask(c) == LET k == ToInt32(c) % 32 IN IF k = 31 THEN MinInt32 ELSE -(2 ^ k)

(***************************************************************************)
(* Expressions.  A node is a record [op, val, size, args]:                 *)
(*    op = "Val"   a Value: val is its number, size its bit size           *)
(*    op = "Reg"   an unknown leaf: val.n identifies it, size its bit size *)
(*    otherwise    a unary or binary expression over args                  *)
(* A size that was never given (undefined) is 0.                           *)
(***************************************************************************)
UndefSize == 0

UnaryOps == {"Neg", "Not", "BoolNot", "AddrOf", "Deref"}

BinaryOps == {"Add", "Sub", "Mul", "Div", "Mod", "And", "Or", "Xor", "Shl", "Shr",
              "BoolAnd", "BoolOr", "EQ", "NE", "LT", "LE", "GT", "GE"}

\* new Expr.Val(value, size)
Val(value, size) == [op |-> "Val", val |-> value, size |-> size, args |-> <<>>]

\* an unknown leaf (a register or a variable)
Reg(id, size) == [op |-> "Reg", val |-> Int2Num(id), size |-> size, args |-> <<>>]

\* new Expr.<op>(operand)
UExpr(op, a) == [op |-> op, val |-> Int2Num(0), size |-> UndefSize, args |-> <<a>>]

\* new Expr.<op>(lhand, rhand)
BExpr(op, a, b) == [op |-> op, val |-> Int2Num(0), size |-> UndefSize, args |-> <<a, b>>]

\* the value a rule returns when it does not match
Null == [op |-> "null", val |-> Int2Num(0), size |-> UndefSize, args |-> <<>>]

IsVal(e) == e.op = "Val"

IsUExpr(e) == e.op \in UnaryOps

IsBExpr(e) == e.op \in BinaryOps

\* expr.size: a leaf carries its own size, an operator the size of its first operand
RECURSIVE SizeOf(_)
SizeOf(e) == IF e.args = <<>> THEN e.size ELSE SizeOf(e.args[1])

\* a.equals(b): same variant, same size, same value, equal operands in order
RECURSIVE Equals(_, _)
Equals(a, b) ==
    /\ a.op = b.op
    /\ Len(a.args) = Len(b.args)
    /\ IF a.args = <<>>
       THEN a.size = b.size /\ NumEq(a.val, b.val)
       ELSE \A i \in 1..Len(a.args) : Equals(a.args[i], b.args[i])

(***************************************************************************)
(* The rewrite rules.  Each returns the replacement, or Null.              *)
(***************************************************************************)
assoc_ops == {"Add", "Mul", "And", "Or", "Xor"}

arith_ops == {"Add", "Sub"}

\* ((x op c1) op c0) --> (x op (c1 op c0))
ctx_fold_assoc(expr) ==
    IF expr.op \in assoc_ops /\ expr.args[1].op \in assoc_ops
    THEN LET iexpr  == expr.args[1]
             orhand == expr.args[2]
             ilhand == iexpr.args[1]
             irhand == iexpr.args[2]
         IN  IF expr.op = iexpr.op /\ IsVal(orhand) /\ IsVal(irhand)
             THEN BExpr(expr.op, ilhand, BExpr(iexpr.op, irhand, orhand))
             ELSE Null
    ELSE Null

\* ((x op1 c1) op0 c0) --> (x op0 (sign * c1 + c0))
ctx_fold_arith(expr) ==
    IF expr.op \in arith_ops /\ expr.args[1].op \in arith_ops
    THEN LET iexpr  == expr.args[1]
             orhand == expr.args[2]
             ilhand == iexpr.args[1]
             irhand == iexpr.args[2]
             sign   == IF expr.op = iexpr.op THEN 1 ELSE -1
         IN  IF IsVal(orhand) /\ IsVal(irhand)
             THEN BExpr(expr.op, ilhand,
                        Val(NumAdd(NumMul(irhand.val, Int2Num(sign)), orhand.val),
                            irhand.size))
             ELSE Null
    ELSE Null

FoldOps == {"Add", "Sub", "Mul", "Div", "Mod", "And", "Or", "Xor"}

\* operations[name](a, b)
FoldOp(op, a, b) ==
    CASE op = "Add" -> NumAdd(a, b)
     []  op = "Sub" -> NumSub(a, b)
     []  op = "Mul" -> NumMul(a, b)
     []  op = "Div" -> NumDiv(a, b)
     []  op = "Mod" -> NumMod(a, b)
     []  op \in {"And", "Or", "Xor"} -> BitOp(op, a, b)

constant_folding(expr) ==
    IF IsBExpr(expr) /\ expr.op \in FoldOps
    THEN LET lhand == expr.args[1]
             rhand == expr.args[2]
         IN  IF IsVal(lhand) /\ IsVal(rhand)
             THEN Val(FoldOp(expr.op, lhand.val, rhand.val), lhand.size)
             ELSE Null
    ELSE Null

correct_arith(expr) ==
    IF IsBExpr(expr)
    THEN LET lhand == expr.args[1]
             rhand == expr.args[2]
         IN  IF expr.op \in {"Add", "Sub"}
             THEN (IF Equals(rhand, Val(Int2Num(0), SizeOf(rhand))) THEN lhand ELSE Null)
             ELSE IF expr.op \in {"Mul", "Div"}
             THEN (IF Equals(rhand, Val(Int2Num(1), SizeOf(rhand))) THEN lhand ELSE Null)
             ELSE Null
    ELSE Null

negate(expr) ==
    IF expr.op = "BoolNot"
    THEN LET op == expr.args[1] IN
         IF IsBExpr(op)
         THEN LET inner_lhand == op.args[1]
                  inner_rhand == op.args[2]
              IN  CASE op.op = "BoolAnd" ->
                         BExpr("BoolOr", UExpr("BoolNot", inner_lhand),
                                         UExpr("BoolNot", inner_rhand))
                   []  op.op = "BoolOr" ->
                         BExpr("BoolAnd", UExpr("BoolNot", inner_lhand),
                                          UExpr("BoolNot", inner_rhand))
                   []  op.op = "EQ"  -> BExpr("NE", inner_lhand, inner_rhand)
                   []  op.op = "NE"  -> BExpr("EQ", inner_lhand, inner_rhand)
                   []  op.op = "GT"  -> BExpr("LE", inner_lhand, inner_rhand)
                   []  op.op = "GE"  -> BExpr("LT", inner_lhand, inner_rhand)
                   []  op.op = "LT"  -> BExpr("GE", inner_lhand, inner_rhand)
                   []  op.op = "LE"  -> BExpr("GT", inner_lhand, inner_rhand)
                   []  op.op = "Add" ->
                         BExpr("EQ", inner_lhand, UExpr("Neg", inner_rhand))
                   []  op.op = "Sub" -> BExpr("EQ", inner_lhand, inner_rhand)
                   []  OTHER -> Null
         ELSE IF IsUExpr(op)
         THEN (IF op.op = "BoolNot" THEN op.args[1] ELSE Null)
         ELSE Null
    ELSE Null

isNegativeValue(e) == IsVal(e) /\ NumLtZero(e.val)

\* the sign correction that flips the operator but keeps the negative operand
\* (the mutant of correct_sign)
correct_sign_keep_negative(expr) ==
    IF IsBExpr(expr) /\ expr.op \in {"Add", "Sub"} /\ isNegativeValue(expr.args[2])
    THEN BExpr(IF expr.op = "Add" THEN "Sub" ELSE "Add", expr.args[1], expr.args[2])
    ELSE Null

\* rhand.value = Math.abs(rhand.value): the operand is updated in place and reused
correct_sign(expr) ==
    IF IsBExpr(expr)
    THEN LET lhand == expr.args[1]
             rhand == expr.args[2]
         IN  IF expr.op = "Add" /\ isNegativeValue(rhand)
             THEN BExpr("Sub", lhand, [rhand EXCEPT !.val = NumAbs(rhand.val)])
             ELSE IF expr.op = "Sub" /\ isNegativeValue(rhand)
             THEN BExpr("Add", lhand, [rhand EXCEPT !.val = NumAbs(rhand.val)])
             ELSE Null
    ELSE Null

correct_ref(expr) ==
    IF IsUExpr(expr)
    THEN LET op == expr.args[1] IN
         IF expr.op = "AddrOf" /\ op.op = "Deref" THEN op.args[1]
         ELSE IF expr.op = "Deref" /\ op.op = "AddrOf" THEN op.args[1]
         ELSE Null
    ELSE Null

correct_bitwise(expr) ==
    IF IsBExpr(expr)
    THEN LET lhand == expr.args[1]
             rhand == expr.args[2]
             ZERO  == Val(Int2Num(0), SizeOf(lhand))
             FF    == Val(Int2Num(AllOnes(SizeOf(lhand))), SizeOf(lhand))
         IN  CASE expr.op = "Xor" ->
                    IF Equals(rhand, ZERO) THEN lhand
                    ELSE IF Equals(rhand, lhand) THEN ZERO
                    ELSE IF Equals(rhand, FF) THEN UExpr("Not", lhand)
                    ELSE Null
              []  expr.op = "Or" ->
                    IF Equals(rhand, ZERO) \/ Equals(rhand, lhand) THEN lhand
                    ELSE IF Equals(rhand, FF) THEN FF
                    ELSE Null
              []  expr.op = "And" ->
                    IF Equals(rhand, ZERO) \/ Equals(rhand, lhand) THEN rhand
                    ELSE IF Equals(rhand, FF) THEN lhand
                    ELSE Null
              []  expr.op = "Shl" ->
                    IF lhand.op = "Shr" /\ IsVal(rhand)
                    THEN LET inner_lhand == lhand.args[1]
                             inner_rhand == lhand.args[2]
                         IN  IF IsVal(inner_rhand) /\ Equals(inner_rhand, rhand)
                             THEN BExpr("And", inner_lhand,
                                        Val(Int2Num(ShlMask(rhand.val)), rhand.size))
                             ELSE Null
                    ELSE Null
              []  OTHER -> Null
    ELSE Null

equality(expr) ==
    IF expr.op = "EQ" /\ IsBExpr(expr.args[1])
    THEN LET lhand == expr.args[1]
             rhand == expr.args[2]
             x     == lhand.args[1]
             y     == lhand.args[2]
         IN  IF IsVal(y) /\ IsVal(rhand) /\ lhand.op = "Add"
             THEN BExpr("EQ", x, Val(NumSub(rhand.val, y.val), UndefSize))
             ELSE IF IsVal(y) /\ IsVal(rhand) /\ lhand.op = "Sub"
             THEN BExpr("EQ", x, Val(NumAdd(rhand.val, y.val), UndefSize))
             ELSE IF Equals(rhand, Val(Int2Num(0), SizeOf(rhand)))
             THEN (IF lhand.op = "Sub" THEN BExpr("EQ", x, y)
                   ELSE IF lhand.op = "Add" THEN BExpr("EQ", x, UExpr("Neg", y))
                   ELSE Null)
             ELSE Null
    ELSE Null

converged_cond(expr) ==
    IF expr.op = "BoolOr" /\ IsBExpr(expr.args[1]) /\ IsBExpr(expr.args[2])
    THEN LET lhand == expr.args[1]
             rhand == expr.args[2]
             x0    == lhand.args[1]
             y0    == lhand.args[2]
             x1    == rhand.args[1]
             y1    == rhand.args[2]
         IN  IF Equals(x0, x1) /\ Equals(y0, y1)
             THEN (IF lhand.op = "GT" /\ rhand.op = "EQ" THEN BExpr("GE", x0, y0)
                   ELSE IF lhand.op = "LT" /\ rhand.op = "EQ" THEN BExpr("LE", x0, y0)
                   ELSE IF lhand.op = "LT" /\ rhand.op = "GT" THEN BExpr("NE", x0, y0)
                   ELSE Null)
             ELSE Null
    ELSE Null

NumRules == 10

\* rules[r](o)
rules(r, o) ==
    CASE r = 1  -> correct_arith(o)
     []  r = 2  -> correct_sign(o)
     []  r = 3  -> correct_ref(o)
     []  r = 4  -> correct_bitwise(o)
     []  r = 5  -> equality(o)
     []  r = 6  -> negate(o)
     []  r = 7  -> converged_cond(o)
     []  r = 8  -> constant_folding(o)
     []  r = 9  -> ctx_fold_assoc(o)
     []  r = 10 -> ctx_fold_arith(o)

(***************************************************************************)
(* The driver.  A subexpression is addressed by its path from the root     *)
(* (a sequence of operand positions).                                      *)
(***************************************************************************)
\* the subexpression of e at path p
RECURSIVE SubAt(_, _)
SubAt(e, p) == IF p = <<>> THEN e ELSE SubAt(e.args[Head(p)], Tail(p))

\* o.replace(alt), o the subexpression of e at path p: the operand slot that
\* holds o now holds alt (the slot of the root is the caller's reference)
RECURSIVE ReplaceAt(_, _, _)
ReplaceAt(e, p, alt) ==
    IF p = <<>> THEN alt
    ELSE [e EXCEPT !.args[Head(p)] = ReplaceAt(e.args[Head(p)], Tail(p), alt)]

\* the paths of q, each prefixed by operand position i
Prefixed(i, q) == [k \in 1..Len(q) |-> <<i>> \o q[k]]

\* expr.iter_operands(true): every subexpression, the root included, in post-order
RECURSIVE iter_operands(_)
iter_operands(e) ==
    IF Len(e.args) = 0 THEN << <<>> >>
    ELSE IF Len(e.args) = 1 THEN Prefixed(1, iter_operands(e.args[1])) \o << <<>> >>
    ELSE Prefixed(1, iter_operands(e.args[1]))
            \o Prefixed(2, iter_operands(e.args[2])) \o << <<>> >>

\* the rules that yield a replacement at o
Matching(o) == {r \in 1..NumRules : rules(r, o) # Null}

\* for (r in rules): the first rule that matches o, or 0
FirstRule(o) ==
    IF Matching(o) = {} THEN 0
    ELSE CHOOSE r \in Matching(o) : \A q \in Matching(o) : r <= q

\* for (r in rules): the replacement of the first rule that matches o, or Null
FirstAlt(o) ==
    IF Matching(o) = {} THEN Null ELSE rules(FirstRule(o), o)

\* the node o itself once the first matching rule has run on it: _correct_sign
\* assigns rhand.value = Math.abs(rhand.value) to the operand of o, the other
\* rules leave o as it is
AfterRule(o) ==
    IF FirstRule(o) = 2 THEN [o EXCEPT !.args[2].val = NumAbs(o.args[2].val)] ELSE o

\* no pass has rewritten anything
NoRewrite(expr) == [alt |-> Null, at |-> <<>>, expr |-> expr]

\* a pass that gives up after its first operand (the mutant of reduce_expr_once)
reduce_expr_once_first_operand(expr) ==
    LET operands == iter_operands(expr)
        o        == SubAt(expr, operands[1])
    IN  IF Matching(o) = {} THEN NoRewrite(expr)
        ELSE [alt  |-> FirstAlt(o),
              at   |-> operands[1],
              expr |-> IF operands[1] = <<>> THEN AfterRule(o)
                       ELSE ReplaceAt(expr, operands[1], FirstAlt(o))]

\* _reduce_expr_once(expr), one pass: the first rewrite in post-order.
\*    alt   the value returned: the replacement, or Null when no rule matches
\*    at    the path in expr of the operand o that was replaced
\*    expr  the node expr after the pass.  A rewrite below expr puts alt in
\*          the operand slot that held o.  A rewrite of expr itself changes a
\*          slot outside expr: expr keeps its operands and stays what it was,
\*          but for the operand value _correct_sign assigns
reduce_expr_once(expr) ==
    LET operands == iter_operands(expr)
        hits     == {k \in 1..Len(operands) : Matching(SubAt(expr, operands[k])) # {}}
    IN  IF hits = {} THEN NoRewrite(expr)
        ELSE LET k == CHOOSE i \in hits : \A j \in hits : i <= j
                 o == SubAt(expr, operands[k])
             IN  [alt  |-> FirstAlt(o),
                  at   |-> operands[k],
                  expr |-> IF operands[k] = <<>> THEN AfterRule(o)
                           ELSE ReplaceAt(expr, operands[k], FirstAlt(o))]

\* What the slot of the caller holds after a pass.  held: the slot still holds
\* the node expr the loop runs on.  o.replace(alt) with o = expr puts alt in
\* the slot that holds expr; once the slot holds something else, replace finds
\* expr in no slot and changes none.
replace(root, held, once) ==
    IF ~held THEN root
    ELSE IF once.at = <<>> THEN once.alt
    ELSE once.expr

\* while (_reduce_expr_once(expr)) {}: every pass runs on the node the loop
\* was entered with, whatever the slot of the caller holds by then.  A pass
\* that rewrites and leaves expr, root and held as they were repeats for ever.
\*    returns  the loop exits
\*    root     what the slot of the caller holds when the loop exits or
\*             starts to repeat
RECURSIVE reduce_expr_loop(_, _, _)
reduce_expr_loop(expr, root, held) ==
    LET once  == reduce_expr_once(expr)
        root2 == replace(root, held, once)
        held2 == held /\ once.at # <<>>
    IN  IF once.alt = Null THEN [returns |-> TRUE, root |-> root]
        ELSE IF once.expr = expr /\ root2 = root /\ held2 = held
        THEN [returns |-> FALSE, root |-> root]
        ELSE reduce_expr_loop(once.expr, root2, held2)

\* reduce_expr(expr), expr held in a slot of the caller
reduce_expr(expr) == reduce_expr_loop(expr, expr, TRUE)

(***************************************************************************)
(* Directed graphs.  Node objects live in a heap and are referred to by    *)
(* their position in it; 0 stands for undefined.  A graph is a record      *)
(*    heap    the Node objects ever constructed for it, each a record      *)
(*            [key, inbound, outbound] of a key and two lists of objects   *)
(*    nodes   this.nodes: for every key, the object stored under it, or 0  *)
(*    order   the keys of this.nodes in the order they were first added    *)
(*    root    this.root                                                    *)
(* Keys are integers.  As property names, the integers from 0 up are array *)
(* indices, which Object.keys lists first and in ascending order; negative *)
(* integers are ordinary property names, listed in insertion order.        *)
(***************************************************************************)
NumNodes == 4

AllKeys == (-NumNodes)..NumNodes

Undefined == 0

\* new Node(key)
Node(key) == [key |-> key, inbound |-> <<>>, outbound |-> <<>>]

\* the fields the Directed constructor sets before it adds nodes and edges
EmptyGraph ==
    [heap |-> <<>>, nodes |-> [k \in AllKeys |-> Undefined], order |-> <<>>,
     root |-> Undefined]

\* Directed.prototype.addNode
addNode(G, key) ==
    [G EXCEPT !.heap = Append(@, Node(key)),
              !.nodes[key] = Len(G.heap) + 1,
              !.order = IF G.nodes[key] # Undefined THEN @ ELSE Append(@, key)]

\* Directed.prototype.getNode
getNode(G, key) == G.nodes[key]

\* Directed.prototype.setRoot
setRoot(G, key) == [G EXCEPT !.root = getNode(G, key)]

\* Directed.prototype.addEdge: the graph afterwards, and whether the call threw
\* (a TypeError on reading a field of an undefined endpoint)
addEdge(G, edge) ==
    LET src == getNode(G, edge[1])
        dst == getNode(G, edge[2])
    IN  IF src = Undefined THEN [g |-> G, err |-> TRUE]
        ELSE LET G1 == [G EXCEPT !.heap[src].outbound = Append(@, dst)]
             IN  IF dst = Undefined THEN [g |-> G1, err |-> TRUE]
                 ELSE [g   |-> [G1 EXCEPT !.heap[dst].inbound = Append(@, src)],
                       err |-> FALSE]

\* nodes.forEach(this.addNode, this)
RECURSIVE AddNodes(_, _)
AddNodes(G, keys) ==
    IF keys = <<>> THEN G ELSE AddNodes(addNode(G, Head(keys)), Tail(keys))

\* edges.forEach(this.addEdge, this): stops at the first call that throws
RECURSIVE AddEdges(_, _)
AddEdges(G, edges) ==
    IF edges = <<>> THEN [g |-> G, err |-> FALSE]
    ELSE LET r == addEdge(G, Head(edges))
         IN  IF r.err THEN r ELSE AddEdges(r.g, Tail(edges))

\* if (root): the truthiness of a key (the number 0 is falsy)
Truthy(key) == key # 0

\* the Directed constructor; truthy: the outcome of the test if (root)
DirectedCall(nodes, edges, root, truthy) ==
    LET r == AddEdges(AddNodes(EmptyGraph, nodes), edges)
    IN  IF r.err THEN r
        ELSE [g |-> IF truthy THEN setRoot(r.g, root) ELSE r.g, err |-> FALSE]

\* new Directed(nodes, edges, root), the keys numbers
Directed(nodes, edges, root) == DirectedCall(nodes, edges, root, Truthy(root))

\* the elements of a sequence that satisfy Test, in order
RECURSIVE SelectKeys(_, _)
SelectKeys(q, nonneg) ==
    IF q = <<>> THEN <<>>
    ELSE IF (Head(q) >= 0) = nonneg THEN <<Head(q)>> \o SelectKeys(Tail(q), nonneg)
    ELSE SelectKeys(Tail(q), nonneg)

\* the elements of a set of integers in ascending order
RECURSIVE Ascending(_)
Ascending(S) ==
    IF S = {} THEN <<>>
    ELSE LET m == CHOOSE x \in S : \A y \in S : x <= y
         IN  <<m>> \o Ascending(S \ {m})

\* Object.keys(G.nodes)
ObjectKeys(G) ==
    Ascending({k \in AllKeys : k >= 0 /\ G.nodes[k] # Undefined})
        \o SelectKeys(G.order, FALSE)

\* Directed.prototype.iterNodes
iterNodes(G) == [i \in 1..Len(ObjectKeys(G)) |-> G.nodes[ObjectKeys(G)[i]]]

\* Directed.prototype.predecessors: node is an object of G's heap
predecessors(G, node) == G.heap[getNode(G, G.heap[node].key)].inbound

\* Directed.prototype.successors
successors(G, node) == G.heap[getNode(G, G.heap[node].key)].outbound

\* whether key k occurs in the sequence q
InSeq(q, k) == \E i \in 1..Len(q) : q[i] = k

\* q.indexOf(k), counted from 1 (0: absent)
IndexOf(q, k) == IF InSeq(q, k) THEN CHOOSE i \in 1..Len(q) : q[i] = k /\ \A j \in 1..(i - 1) : q[j] # k ELSE 0

(***************************************************************************)
(* DFSpanningTree.                                                         *)
(***************************************************************************)
\* explore(n), st the lists _nodes and _edges so far; err: a TypeError was
\* thrown (n or a successor is undefined)
RECURSIVE explore(_, _, _)
RECURSIVE ExploreSuccs(_, _, _, _, _)
explore(g, n, st) ==
    IF n = Undefined THEN [st EXCEPT !.err = TRUE]
    ELSE ExploreSuccs(g, n, successors(g, n), 1,
                      [st EXCEPT !.nodes = Append(@, g.heap[n].key)])

ExploreSuccs(g, n, succs, i, st) ==
    IF st.err \/ i > Len(succs) THEN st
    ELSE IF succs[i] = Undefined THEN [st EXCEPT !.err = TRUE]
    ELSE IF ~InSeq(st.nodes, g.heap[succs[i]].key)
    THEN ExploreSuccs(g, n, succs, i + 1,
            explore(g, succs[i],
                    [st EXCEPT !.edges = Append(@, <<g.heap[n].key, g.heap[succs[i]].key>>)]))
    ELSE ExploreSuccs(g, n, succs, i + 1, st)

\* new DFSpanningTree(g): the tree as a graph, and keys_dfs; the dfnum of the
\* node with key keys_dfs[i] is i - 1
DFSpanningTree(g) ==
    LET st == explore(g, g.root, [nodes |-> <<>>, edges |-> <<>>, err |-> FALSE])
    IN  IF st.err THEN [err |-> TRUE, tree |-> EmptyGraph, keys_dfs |-> <<>>]
        ELSE LET d == Directed(st.nodes, st.edges, st.nodes[1])
             IN  [err |-> d.err, tree |-> d.g, keys_dfs |-> st.nodes]

\* DFSpanningTree.prototype.parent
parent(tree, node) ==
    LET preds == predecessors(tree, node)
    IN  IF preds = <<>> THEN Undefined ELSE preds[1]

(***************************************************************************)
(* DominatorTree (Lengauer-Tarjan).  The nodes of the spanning tree are    *)
(* named by their position in keys_dfs (dfnum + 1).  The scratch fields    *)
(* semi, ancestor, best, idom, samedom map a node to a node or to 0        *)
(* (undefined); bucket maps a node to a list of nodes.                     *)
(***************************************************************************)
Scratch(N) ==
    [semi     |-> [i \in 1..N |-> Undefined],
     ancestor |-> [i \in 1..N |-> Undefined],
     best     |-> [i \in 1..N |-> Undefined],
     idom     |-> [i \in 1..N |-> Undefined],
     samedom  |-> [i \in 1..N |-> Undefined],
     bucket   |-> [i \in 1..N |-> <<>>],
     err      |-> FALSE]

\* AncestorWithLowestSemi(v): the scratch after path compression, and v.best
RECURSIVE AncestorWithLowestSemi(_, _)
AncestorWithLowestSemi(st, v) ==
    LET a == st.ancestor[v] IN
    IF a = Undefined THEN [st |-> [st EXCEPT !.err = TRUE], best |-> Undefined]
    ELSE IF st.ancestor[a] # Undefined
    THEN LET r   == AncestorWithLowestSemi(st, a)
             b   == r.best
             st1 == [r.st EXCEPT !.ancestor[v] = r.st.ancestor[a]]
             st2 == IF st1.semi[b] < st1.semi[st1.best[v]]
                    THEN [st1 EXCEPT !.best[v] = b]
                    ELSE st1
         IN  IF r.st.err THEN r ELSE [st |-> st2, best |-> st2.best[v]]
    ELSE [st |-> st, best |-> st.best[v]]

\* Link(p, n)
Link(st, p, n) == [st EXCEPT !.ancestor[n] = p, !.best[n] = n]

\* g.predecessors(n).forEach(...): the scratch and the semidominator candidate
\* s after the predecessors preds[k..] of n; a predecessor that the spanning
\* tree does not hold is undefined there, and reading its dfnum throws
RECURSIVE SemiLoop(_, _, _, _, _, _)
SemiLoop(g, keys_dfs, st, n, preds, k) ==
    IF st.st.err \/ k > Len(preds) THEN st
    ELSE LET v == IndexOf(keys_dfs, g.heap[preds[k]].key) IN
         IF v = Undefined THEN [st EXCEPT !.st.err = TRUE]
         ELSE LET r     == IF v <= n THEN [st |-> st.st, best |-> Undefined]
                           ELSE AncestorWithLowestSemi(st.st, v)
                  s_tag == IF v <= n THEN v
                           ELSE IF r.st.err THEN Undefined ELSE r.st.semi[r.best]
                  s     == IF s_tag < st.s THEN s_tag ELSE st.s
              IN  SemiLoop(g, keys_dfs, [st |-> r.st, s |-> s], n, preds, k + 1)

\* the bucket loop that takes p for the idom of every node it pops, whatever
\* the ancestor with the lowest semidominator is (the mutant of BucketLoop)
RECURSIVE BucketLoop_always_parent(_, _)
BucketLoop_always_parent(st, p) ==
    IF st.err \/ st.bucket[p] = <<>> THEN st
    ELSE LET len == Len(st.bucket[p])
             v   == st.bucket[p][len]
         IN  BucketLoop_always_parent(
                 [st EXCEPT !.bucket[p] = SubSeq(@, 1, len - 1), !.idom[v] = p], p)

\* while (p.bucket.length > 0)
RECURSIVE BucketLoop(_, _)
BucketLoop(st, p) ==
    IF st.err \/ st.bucket[p] = <<>> THEN st
    ELSE LET len == Len(st.bucket[p])
             v   == st.bucket[p][len]
             r   == AncestorWithLowestSemi(
                        [st EXCEPT !.bucket[p] = SubSeq(@, 1, len - 1)], v)
             y   == r.best
         IN  IF r.st.err THEN r.st
             ELSE IF r.st.semi[y] = r.st.semi[v]
             THEN BucketLoop([r.st EXCEPT !.idom[v] = p], p)
             ELSE BucketLoop([r.st EXCEPT !.samedom[v] = y], p)

\* for (i = nodes.length - 1; i > 0; i--), n the node with dfnum i (n = i + 1)
RECURSIVE SemiPass(_, _, _, _)
SemiPass(g, dfstree, st, n) ==
    IF st.err \/ n < 2 THEN st
    ELSE LET keys_dfs == dfstree.keys_dfs
             tree     == dfstree.tree
             key      == keys_dfs[n]
             p        == IndexOf(keys_dfs, tree.heap[parent(tree, getNode(tree, key))].key)
             preds    == g.heap[getNode(g, key)].inbound
             r        == SemiLoop(g, keys_dfs, [st |-> st, s |-> p], n, preds, 1)
             s        == r.s
             st1      == [r.st EXCEPT !.semi[n] = s,
                                      !.bucket[s] = IF InSeq(@, n) THEN @ ELSE Append(@, n)]
         IN  IF r.st.err THEN r.st
             ELSE SemiPass(g, dfstree, BucketLoop(Link(st1, p, n), p), n - 1)

\* for (i = 1; i < nodes.length; i++): the scratch with every idom final, and
\* the edges of the dominator tree; a node left without an idom throws
RECURSIVE IdomPass(_, _, _)
IdomPass(keys_dfs, st, n) ==
    IF st.st.err \/ n > Len(keys_dfs) THEN st
    ELSE LET st1 == IF st.st.samedom[n] # Undefined
                    THEN [st.st EXCEPT !.idom[n] = st.st.idom[st.st.samedom[n]]]
                    ELSE st.st
         IN  IF st1.idom[n] = Undefined THEN [st EXCEPT !.st.err = TRUE]
             ELSE IdomPass(keys_dfs,
                           [st    |-> st1,
                            edges |-> Append(st.edges, <<keys_dfs[st1.idom[n]], keys_dfs[n]>>)],
                           n + 1)

\* the result of a constructor that threw
NoTree == [err |-> TRUE, g |-> EmptyGraph, cfg |-> EmptyGraph, DF |-> <<>>, known |-> {}]

\* new DominatorTree(g): the tree as a graph g over the keys of the spanning
\* tree, the graph cfg it was built from, and the DF cache of its nodes
\* (known: the nodes whose DF is defined)
DominatorTree(g) ==
    LET dfstree == DFSpanningTree(g) IN
    IF dfstree.err THEN NoTree
    ELSE LET N    == Len(dfstree.keys_dfs)
             st   == SemiPass(g, dfstree, Scratch(N), N)
             r    == IdomPass(dfstree.keys_dfs, [st |-> st, edges |-> <<>>], 2)
             keys == ObjectKeys(dfstree.tree)
             d    == DirectedCall(keys, r.edges, keys[1], TRUE)
         IN  IF st.err \/ r.st.err \/ d.err THEN NoTree
             ELSE [err |-> FALSE, g |-> d.g, cfg |-> g,
                   DF |-> [i \in 1..Len(d.g.heap) |-> <<>>], known |-> {}]

\* n.idom = n.inbound[0]
idom(T, n) == IF T.g.heap[n].inbound = <<>> THEN Undefined ELSE T.g.heap[n].inbound[1]

\* DominatorTree.prototype.dominates: "true", "false", or "TypeError" when the
\* walk up the idoms reads the idom of undefined
RECURSIVE dominates(_, _, _)
dominates(T, v, u) ==
    IF u = v THEN "true"
    ELSE IF u = T.g.root THEN "false"
    ELSE IF u = Undefined THEN "TypeError"
    ELSE dominates(T, v, idom(T, u))

\* DominatorTree.prototype.strictlyDominates
strictlyDominates(T, v, u) == IF v # u THEN dominates(T, v, u) ELSE "false"

\* S with w pushed unless S holds it already
PushNew(S, w) == IF InSeq(S, w) THEN S ELSE Append(S, w)

\* compute DF local
RECURSIVE DFLocal(_, _, _, _, _)
DFLocal(T, n, succs, i, S) ==
    IF i > Len(succs) THEN S
    ELSE LET y == getNode(T.g, T.cfg.heap[succs[i]].key)
         IN  DFLocal(T, n, succs, i + 1, IF idom(T, y) # n THEN PushNew(S, y) ELSE S)

\* this.dominanceFrontier(c).forEach(...), W the frontier of the child c
RECURSIVE DFUpOne(_, _, _, _, _)
DFUpOne(T, n, W, i, acc) ==
    IF acc.err \/ i > Len(W) THEN acc
    ELSE LET d == dominates(T, n, W[i])
         IN  IF d = "TypeError" THEN [acc EXCEPT !.err = TRUE]
             ELSE DFUpOne(T, n, W, i + 1,
                          IF d = "false" \/ n = W[i]
                          THEN [acc EXCEPT !.S = PushNew(@, W[i])]
                          ELSE acc)

\* DominatorTree.prototype.dominanceFrontier: the tree with its cache
\* updated, the list returned, and whether the call threw
RECURSIVE dominanceFrontier(_, _)
RECURSIVE DFUp(_, _, _, _, _)
dominanceFrontier(T, n) ==
    IF n \in T.known THEN [T |-> T, S |-> T.DF[n], err |-> FALSE]
    ELSE LET local == DFLocal(T, n, successors(T.cfg, getNode(T.cfg, T.g.heap[n].key)), 1, <<>>)
             up    == DFUp(T, n, successors(T.g, n), 1, [T |-> T, S |-> local, err |-> FALSE])
         IN  IF up.err THEN up
             ELSE [T   |-> [up.T EXCEPT !.DF[n] = up.S, !.known = @ \cup {n}],
                   S   |-> up.S,
                   err |-> FALSE]

\* compute DF up: this.successors(n).forEach(...)
DFUp(T, n, children, i, acc) ==
    IF acc.err \/ i > Len(children) THEN acc
    ELSE LET rc  == dominanceFrontier(acc.T, children[i])
             one == DFUpOne(rc.T, n, rc.S, 1, [S |-> acc.S, err |-> rc.err])
         IN  DFUp(T, n, children, i + 1, [T |-> rc.T, S |-> one.S, err |-> one.err])

(***************************************************************************)
(* The expressions handed to reduce_expr.                                  *)
(***************************************************************************)
MaxVal == 2

Sizes == {8, 32}

\* the numbers of the input Values: small integers of either sign and, for
\* each size, the mask of that size as _correct_bitwise computes it
ValNums == (-MaxVal..MaxVal) \cup {AllOnes(s) : s \in Sizes}

Regs == {Reg(1, 32), Reg(2, 32), Reg(3, 8)}

Leaves == Regs \cup {Val(Int2Num(v), s) : v \in ValNums, s \in Sizes}

\* the leaves of the nested inputs
InnerLeaves == {Reg(1, 32), Reg(2, 32)} \cup {Val(Int2Num(v), 32) : v \in -1..(MaxVal - 1)}

UnaryOver(S) == {UExpr(op, a) : op \in UnaryOps, a \in S}

BinaryOver(ops, S, T) == {BExpr(op, a, b) : op \in ops, a \in S, b \in T}

Flat == UnaryOver(Leaves) \cup BinaryOver(BinaryOps, Leaves, Leaves)

InnerFlat == UnaryOver(InnerLeaves) \cup BinaryOver(BinaryOps, InnerLeaves, InnerLeaves)

Comparisons == BinaryOver({"EQ", "NE", "LT", "LE", "GT", "GE"},
                          {Reg(1, 32)}, {Reg(2, 32), Val(Int2Num(1), 32)})

Nested ==
    UnaryOver(InnerFlat)
        \cup BinaryOver(BinaryOps, InnerFlat, InnerLeaves)
        \cup BinaryOver({"BoolAnd", "BoolOr"}, Comparisons, Comparisons)
        \cup {UExpr("BoolNot", UExpr("BoolNot", e)) :
                e \in InnerFlat \cup BinaryOver({"BoolAnd", "BoolOr"}, Comparisons, Comparisons)}

\* conjunctions and disjunctions over a comparison of a sum with zero
Deep ==
    BinaryOver({"BoolAnd", "BoolOr"},
               BinaryOver({"EQ"},
                          BinaryOver({"Add", "Sub"}, {Reg(1, 32)}, {Val(Int2Num(1), 32)}),
                          {Val(Int2Num(0), 32)}),
               {Reg(2, 32)})

Inputs == Leaves \cup Flat \cup Nested \cup Deep

(***************************************************************************)
(* reduce_expr and reduce_stmt as a state machine: one step per pass of    *)
(* _reduce_expr_once.  reduce_stmt(stmt) calls reduce_expr on every        *)
(* expression of stmt.expressions in turn; reduce_expr(e) alone is the     *)
(* call on an expression with none to follow.                              *)
(***************************************************************************)
MaxPasses == 6

\* the expressions of the statements handed to reduce_stmt
StmtExprs ==
    {Reg(1, 32),
     BExpr("Add", BExpr("Mul", Reg(1, 32), Val(Int2Num(1), 32)), Reg(2, 32)),
     BExpr("Add", Reg(1, 32), Val(Int2Num(0), 32))}

\* stmt.expressions: an ordered list of at most two expressions
Statements ==
    {<<>>} \cup {<<a>> : a \in StmtExprs} \cup {<<a, b>> : a \in StmtExprs, b \in StmtExprs}

VARIABLES
    input,   \* the expression the running call of reduce_expr was entered with
    root,    \* what the slot of the caller that held that expression holds now
    expr,    \* the node the while loop runs on
    held,    \* the slot of the caller still holds the node expr
    passes,  \* the passes of the running call that rewrote, up to MaxPasses
    todo,    \* the expressions of the statement forEach has yet to visit
    done,    \* the expressions of the statement forEach has visited
    pc,      \* "reduce": inside the while loop; "returned"
    g,       \* a Directed graph
    dt,      \* the DominatorTree built from g
    res,     \* the outcome of the last call on g or dt
    phase,   \* "calls", or "input" / "built" / "failed" for the dominator tree
    calls    \* the number of calls made on g

vars == <<input, root, expr, held, passes, todo, done, pc, g, dt, res, phase, calls>>

svars == <<input, root, expr, held, passes, todo, done, pc>>

gvars == <<g, dt, res, phase, calls>>

NoRes == [op |-> "none", v |-> 0, u |-> 0, r |-> "none"]

\* no graph is under construction
NoGraph ==
    /\ g = EmptyGraph
    /\ dt = NoTree
    /\ res = NoRes
    /\ phase = "none"
    /\ calls = 0

\* no call of the simplifier is running
NoCall ==
    /\ input = Null
    /\ root = Null
    /\ expr = Null
    /\ held = FALSE
    /\ passes = 0
    /\ todo = <<>>
    /\ done = <<>>
    /\ pc = "none"

\* reduce_expr is entered with e, the expressions rest to follow
Enter(e, rest) ==
    /\ input = e
    /\ root = e
    /\ expr = e
    /\ held = TRUE
    /\ passes = 0
    /\ todo = rest
    /\ done = <<>>
    /\ pc = "reduce"

\* reduce_stmt(stmt): forEach enters reduce_expr with the first expression;
\* on a statement without expressions it returns at once
reduce_stmt(expressions) ==
    IF expressions = <<>>
    THEN /\ input = Null
         /\ root = Null
         /\ expr = Null
         /\ held = FALSE
         /\ passes = 0
         /\ todo = <<>>
         /\ done = <<>>
         /\ pc = "returned"
    ELSE Enter(Head(expressions), Tail(expressions))

Init ==
    /\ \/ \E e \in Inputs : Enter(e, <<>>)
       \/ \E s \in Statements : reduce_stmt(s)
    /\ NoGraph

\* a pass of the while loop that rewrites
Pass ==
    /\ pc = "reduce"
    /\ \E once \in {reduce_expr_once(expr)} :
          /\ once.alt # Null
          /\ expr' = once.expr
          /\ root' = replace(root, held, once)
          /\ held' = (held /\ once.at # <<>>)
    /\ passes' = IF passes < MaxPasses THEN passes + 1 ELSE passes
    /\ UNCHANGED <<input, todo, done, pc>>
    /\ UNCHANGED gvars

\* the pass that finds nothing to rewrite: reduce_expr returns
Return ==
    /\ pc = "reduce"
    /\ reduce_expr_once(expr).alt = Null
    /\ pc' = "returned"
    /\ UNCHANGED <<input, root, expr, held, passes, todo, done>>
    /\ UNCHANGED gvars

\* stmt.expressions.forEach(_reduce_expr): the call on one expression has
\* returned, reduce_expr is entered with the next
NextExpression ==
    /\ pc = "returned"
    /\ todo # <<>>
    /\ done' = Append(done, root)
    /\ input' = Head(todo)
    /\ root' = Head(todo)
    /\ expr' = Head(todo)
    /\ held' = TRUE
    /\ passes' = 0
    /\ todo' = Tail(todo)
    /\ pc' = "reduce"
    /\ UNCHANGED gvars

Next == Pass \/ Return \/ NextExpression

Spec == Init /\ [][Next]_vars

(***************************************************************************)
(* reduce_expr on bitwise expressions whose right operand is the all-ones  *)
(* number of the operand width.  The integers of the model end at          *)
(* 2^31 - 1; the number 2^w - 1 of a width w >= 32 is held as the record   *)
(* [n |-> w, d |-> -2], which equals itself and no other number.  No       *)
(* arithmetic is applied to it: the left operand is an unknown leaf, so    *)
(* the rules only compare it.                                              *)
(***************************************************************************)
MaxRegs == 4

Widths == {8, 16, 32, 64}

\* the number 2^w - 1 (0xff, 0xffff, 0xffffffff, ...)
Mask(w) == IF w < 31 THEN Int2Num(2 ^ w - 1) ELSE [n |-> w, d |-> -2]

\* the expressions x op m, x an unknown leaf of a width and m the all-ones
\* number of that width, or 0
MaskInputsOf(w) ==
    {BExpr(op, Reg(i, w), Val(m, w)) :
        op \in {"Xor", "Or", "And"}, i \in 1..MaxRegs, m \in {Mask(w), Int2Num(0)}}

MaskInputs == UNION {MaskInputsOf(w) : w \in Widths}

\* reduce_expr on one of them, or reduce_stmt on a statement of two
MaskInit ==
    /\ \/ \E e \in MaskInputs : Enter(e, <<>>)
       \/ \E a \in MaskInputsOf(32), b \in MaskInputsOf(8) : Enter(a, <<b>>)
    /\ NoGraph

SpecMask == MaskInit /\ [][Next]_vars

(***************************************************************************)
(* A Directed graph under a sequence of addNode, addEdge and setRoot calls. *)
(***************************************************************************)
MaxCalls == 4

NumKeys == 2

CallKeys == 1..NumKeys

GraphInit ==
    /\ g = EmptyGraph
    /\ phase = "calls"
    /\ calls = 0
    /\ res = NoRes
    /\ dt = NoTree
    /\ NoCall

AddNodeCall(key) ==
    /\ phase = "calls"
    /\ calls < MaxCalls
    /\ g' = addNode(g, key)
    /\ res' = [op |-> "addNode", v |-> key, u |-> 0, r |-> "ok"]
    /\ calls' = calls + 1
    /\ UNCHANGED <<dt, phase>>
    /\ UNCHANGED svars

\* an addEdge call; a call that throws leaves the graph as it was when it threw
AddEdgeCall(src, dst) ==
    /\ phase = "calls"
    /\ calls < MaxCalls
    /\ g' = addEdge(g, <<src, dst>>).g
    /\ res' = [op |-> "addEdge", v |-> src, u |-> dst,
               r |-> IF addEdge(g, <<src, dst>>).err THEN "TypeError" ELSE "ok"]
    /\ calls' = calls + 1
    /\ UNCHANGED <<dt, phase>>
    /\ UNCHANGED svars

\* a setRoot call: the root is the node stored under the key now, or undefined
SetRootCall(key) ==
    /\ phase = "calls"
    /\ calls < MaxCalls
    /\ g' = setRoot(g, key)
    /\ res' = [op |-> "setRoot", v |-> key, u |-> 0, r |-> "ok"]
    /\ calls' = calls + 1
    /\ UNCHANGED <<dt, phase>>
    /\ UNCHANGED svars

GraphNext ==
    \/ \E key \in CallKeys : AddNodeCall(key)
    \/ \E src \in CallKeys, dst \in CallKeys : AddEdgeCall(src, dst)
    \/ \E key \in CallKeys : SetRootCall(key)

SpecGraph == GraphInit /\ [][GraphNext]_vars

(***************************************************************************)
(* The dominator tree of a control-flow graph.  The graphs are those of    *)
(* NumNodes nodes and at most MaxEdges edges (MaxQueryEdges where the      *)
(* tree is queried after its construction); node 1 is the root.  The       *)
(* keys of the nodes follow one of four schemes:                           *)
(*    "asc"    1, 2, 3, ...       (the root has the least key)             *)
(*    "desc"   ..., 3, 2, 1       (the root has the greatest key)          *)
(*    "zero"   0, 1, 2, ...       (the root has key 0)                     *)
(*    "neg"    -1, -2, -3, ...    (keys that are no array indices)         *)
(* Edges are added in ascending order of source and destination node, in   *)
(* which every depth-first numbering occurs for some labelling.            *)
(***************************************************************************)
MaxEdges == 6

MaxQueryEdges == 5

Schemes == {"asc", "desc", "zero", "neg"}

KeyOf(sch, i) ==
    CASE sch = "asc"  -> i
     []  sch = "desc" -> NumNodes + 1 - i
     []  sch = "zero" -> i - 1
     []  sch = "neg"  -> -i

\* the subsets of S of at most k elements
RECURSIVE SubsetsUpTo(_, _)
SubsetsUpTo(S, k) ==
    IF k = 0 \/ S = {} THEN {{}}
    ELSE LET x == CHOOSE y \in S : TRUE
         IN  SubsetsUpTo(S \ {x}, k) \cup {T \cup {x} : T \in SubsetsUpTo(S \ {x}, k - 1)}

\* an edge from node i to node j has code (i - 1) * NumNodes + (j - 1)
EdgeCodes == 0..(NumNodes * NumNodes - 1)

KeyList(sch) == [i \in 1..NumNodes |-> KeyOf(sch, i)]

EdgeList(sch, E) ==
    LET codes == Ascending(E)
    IN  [k \in 1..Len(codes) |->
            <<KeyOf(sch, (codes[k] \div NumNodes) + 1), KeyOf(sch, (codes[k] % NumNodes) + 1)>>]

GraphsUpTo(k) ==
    {Directed(KeyList(sch), EdgeList(sch, E), KeyOf(sch, 1)).g :
        sch \in Schemes, E \in SubsetsUpTo(EdgeCodes, k)}

InputGraphs == GraphsUpTo(MaxEdges)

QueryGraphs == GraphsUpTo(MaxQueryEdges)

\* no tree is built yet and the simplifier is not in use
Unbuilt ==
    /\ phase = "input"
    /\ dt = NoTree
    /\ res = NoRes
    /\ calls = 0
    /\ NoCall

\* g = new Directed(nodes, edges, root)
BuildInit == g \in InputGraphs /\ Unbuilt

DomInit == g \in QueryGraphs /\ Unbuilt

\* new DominatorTree(g)
Build ==
    /\ phase = "input"
    /\ dt' = DominatorTree(g)
    /\ phase' = IF dt'.err THEN "failed" ELSE "built"
    /\ res' = [op |-> "DominatorTree", v |-> 0, u |-> 0,
               r |-> IF dt'.err THEN "TypeError" ELSE "ok"]
    /\ UNCHANGED <<g, calls>>
    /\ UNCHANGED svars

\* dt.dominates(v, u), v and u nodes of dt
Dominates(v, u) ==
    /\ phase = "built"
    /\ res' = [op |-> "dominates", v |-> v, u |-> u, r |-> dominates(dt, v, u)]
    /\ UNCHANGED <<g, dt, phase, calls>>
    /\ UNCHANGED svars

\* dt.dominanceFrontier(n), n a node of dt
Frontier(n) ==
    /\ phase = "built"
    /\ \E F \in {dominanceFrontier(dt, n)} :
          /\ dt' = F.T
          /\ res' = [op |-> "dominanceFrontier", v |-> n, u |-> 0,
                     r |-> IF F.err THEN "TypeError" ELSE "ok"]
    /\ UNCHANGED <<g, phase, calls>>
    /\ UNCHANGED svars

DomNext ==
    \/ Build
    \/ \E v \in 1..Len(dt.g.heap), u \in 1..Len(dt.g.heap) : Dominates(v, u)
    \/ \E n \in 1..Len(dt.g.heap) : Frontier(n)

\* the construction of the tree alone
SpecBuild == BuildInit /\ [][Build]_vars

\* the construction of the tree and the queries on it
SpecDom == DomInit /\ [][DomNext]_vars

(***************************************************************************)
(* Properties of the simplifier.                                           *)
(***************************************************************************)
\* every subexpression of e, e included
RECURSIVE Subexprs(_)
Subexprs(e) ==
    {e} \cup UNION {Subexprs(e.args[i]) : i \in 1..Len(e.args)}

\* no rule yields a replacement at any subexpression of e
NoRuleAnywhere(e) == \A o \in Subexprs(e) : \A r \in 1..NumRules : rules(r, o) = Null

\* C1: once reduce_expr has returned, none of the ten rules yields a
\* replacement at any subexpression of the tree, and running reduce_expr a
\* second time leaves the tree structurally unchanged.
C1_FixedPoint ==
    pc = "returned" =>
        /\ NoRuleAnywhere(root)
        /\ reduce_expr(root) = [returns |-> TRUE, root |-> root]

\* reduce_expr has returned after two passes on ((x * 1) - (-1)): the fold of
\* the product below the root, then the sign correction of the root
C1_Witness ==
    /\ pc = "returned"
    /\ input = BExpr("Sub", BExpr("Mul", Reg(1, 32), Val(Int2Num(1), 32)), Val(Int2Num(-1), 32))
    /\ root = BExpr("Add", Reg(1, 32), Val(Int2Num(1), 32))
    /\ passes = 2

\* A ranking of expression trees in the naturals.  Every operand weighs into
\* its parent with a positive factor, so a rewrite that lowers the weight of a
\* subexpression lowers the weight of the tree.  The left operand of a binary
\* expression counts twice (re-association moves constants to the right), the
\* operand of a BoolNot counts twice (negation is pushed inward), and a
\* negative Value outweighs a non-negative one (sign correction).
RECURSIVE Weight(_)
Weight(e) ==
    IF e.op = "Val" THEN (IF NumLtZero(e.val) THEN 2 ELSE 1)
    ELSE IF e.op = "Reg" THEN 1
    ELSE IF e.op = "BoolNot" THEN 2 * Weight(e.args[1])
    ELSE IF Len(e.args) = 1 THEN Weight(e.args[1]) + 1
    ELSE 2 * Weight(e.args[1]) + Weight(e.args[2]) + 1

\* C2: reduce_expr terminates on every finite expression tree: every pass
\* that rewrites strictly lowers the weight, a natural number, of the tree the
\* loop runs on, so the sequence of passes is finite: no sequence of rule
\* applications cycles or grows without bound.
C2_Terminates ==
    pc = "reduce" =>
        \/ reduce_expr_once(expr).alt = Null
        \/ Weight(reduce_expr_once(expr).expr) < Weight(expr)

\* the loop of the running call never exits: the slot of the caller holds
\* another node, and the next pass rewrites the node the loop runs on once
\* more and leaves it as it is
NeverReturns ==
    /\ pc = "reduce"
    /\ ~held
    /\ reduce_expr_once(expr).alt # Null
    /\ reduce_expr_once(expr).expr = expr

\* reduce_expr(x + 0) has put x in the slot of the caller and is still in its
\* loop after MaxPasses passes, each of which rewrote the node (x + 0) to x
C2_Failing ==
    /\ NeverReturns
    /\ input = BExpr("Add", Reg(1, 32), Val(Int2Num(0), 32))
    /\ expr = input
    /\ root = Reg(1, 32)
    /\ passes = MaxPasses

IsFoldInput(e) ==
    /\ e.op \in {"Add", "Sub", "Mul", "And", "Or", "Xor"}
    /\ IsVal(e.args[1])
    /\ IsVal(e.args[2])

\* C6: folding agreement: for two Values a, b and op in {Add, Sub, Mul, And,
\* Or, Xor}, reduce_expr(op(a, b)) returns and leaves the single Value
\* Value(op(a.value, b.value), a.size), whichever rule matches first.
C6_FoldingAgreement ==
    IsFoldInput(input) =>
        /\ reduce_expr(input) =
              [returns |-> TRUE,
               root    |-> Val(FoldOp(input.op, input.args[1].val, input.args[2].val),
                               input.args[1].size)]
        /\ pc = "returned" =>
              root = Val(FoldOp(input.op, input.args[1].val, input.args[2].val),
                         input.args[1].size)

\* reduce_expr(Xor(Value(1, 8), Value(255, 8))) has put Not(Value(1, 8)) in
\* the slot of the caller (correct_bitwise took the all-ones right operand
\* before constant_folding) and never returns
C6_Failing ==
    /\ NeverReturns
    /\ passes = MaxPasses
    /\ input = BExpr("Xor", Val(Int2Num(1), 8), Val(Int2Num(255), 8))
    /\ root = UExpr("Not", Val(Int2Num(1), 8))

IsDivByZero(e) ==
    /\ e.op \in {"Div", "Mod"}
    /\ IsVal(e.args[1])
    /\ IsVal(e.args[2])
    /\ IsZero(e.args[2].val)

\* C7: division or modulo by zero is never folded: on Div(a, b) and Mod(a, b)
\* with b.value = 0 constant_folding does not fire, and reduce_expr returns
\* and leaves the expression unchanged.
C7_NoFoldByZero ==
    IsDivByZero(input) =>
        /\ constant_folding(input) = Null
        /\ root = input
        /\ reduce_expr(input) = [returns |-> TRUE, root |-> input]

\* reduce_expr(Div(Value(1, 32), Value(0, 32))) has put Value(Infinity, 32) in
\* the slot of the caller
C7_Failing ==
    /\ NeverReturns
    /\ passes = MaxPasses
    /\ input = BExpr("Div", Val(Int2Num(1), 32), Val(Int2Num(0), 32))
    /\ root = Val(PosInf, 32)

IsDoubleNegation(e) == e.op = "BoolNot" /\ e.args[1].op = "BoolNot"

\* C8: double negation: reduce_expr(BoolNot(BoolNot(e))) returns and leaves
\* a tree structurally equal to the one reduce_expr(e) leaves.
C8_DoubleNegation ==
    IsDoubleNegation(input) =>
        /\ reduce_expr(input).returns
        /\ reduce_expr(input).root = reduce_expr(input.args[1].args[1]).root
        /\ pc = "returned" => root = reduce_expr(input.args[1].args[1]).root

\* reduce_expr(BoolNot(BoolNot(Add(r1, r2)))) has put NE(r1, Neg(r2)) in the
\* slot of the caller, and reduce_expr(Add(r1, r2)) leaves Add(r1, r2)
C8_Failing ==
    /\ NeverReturns
    /\ passes = MaxPasses
    /\ input = UExpr("BoolNot", UExpr("BoolNot", BExpr("Add", Reg(1, 32), Reg(2, 32))))
    /\ root = BExpr("NE", Reg(1, 32), UExpr("Neg", Reg(2, 32)))
    /\ reduce_expr(BExpr("Add", Reg(1, 32), Reg(2, 32))) =
          [returns |-> TRUE, root |-> BExpr("Add", Reg(1, 32), Reg(2, 32))]

(***************************************************************************)
(* Dominance as defined on the graph itself: v dominates u iff every path  *)
(* from the root to u passes through v.  Nodes are named by their keys.    *)
(***************************************************************************)
\* the keys that have a node in G
LiveKeys(G) == {k \in AllKeys : G.nodes[k] # Undefined}

\* the elements of a sequence
Range(q) == {q[i] : i \in 1..Len(q)}

\* the edges of G, as pairs of keys
EdgeKeys(G) ==
    {e \in LiveKeys(G) \X AllKeys :
        \E o \in Range(G.heap[G.nodes[e[1]]].outbound) :
            o # Undefined /\ G.heap[o].key = e[2]}

\* a value that is no key
NoKey == NumNodes + 1

RECURSIVE Grow(_, _, _)
Grow(G, S, avoid) ==
    LET T == S \cup {e[2] : e \in {f \in EdgeKeys(G) : f[1] \in S /\ f[2] # avoid}}
    IN  IF T = S THEN S ELSE Grow(G, T, avoid)

\* the keys reachable from the root of G along paths that do not touch avoid
ReachAvoiding(G, avoid) ==
    IF G.root = Undefined \/ G.heap[G.root].key = avoid THEN {}
    ELSE Grow(G, {G.heap[G.root].key}, avoid)

Reachable(G) == ReachAvoiding(G, NoKey)

Rooted(G) == G.root # Undefined

AllReachable(G) == Rooted(G) /\ Reachable(G) = LiveKeys(G)

\* v dominates u in G (u reachable)
Dom(G, v, u) == u = v \/ u \notin ReachAvoiding(G, v)

StrictDoms(G, n) == {v \in Reachable(G) \ {n} : Dom(G, v, n)}

\* the closest strict dominator of n
ImmediateDominator(G, n) ==
    CHOOSE d \in StrictDoms(G, n) : \A e \in StrictDoms(G, n) : Dom(G, e, d)

\* the nodes w such that n dominates a predecessor of w and does not strictly
\* dominate w
Frontier_of(G, n) ==
    {w \in Reachable(G) :
        /\ \E e \in EdgeKeys(G) : e[2] = w /\ e[1] \in Reachable(G) /\ Dom(G, n, e[1])
        /\ ~(n # w /\ Dom(G, n, w))}

\* the tree holds exactly the reachable keys, the root has no idom and every
\* other node has its immediate dominator in G as idom
IdomsCorrect(G, T) ==
    /\ LiveKeys(T.g) = Reachable(G)
    /\ \A k \in Reachable(G) :
          LET n == getNode(T.g, k) IN
          IF k = G.heap[G.root].key THEN idom(T, n) = Undefined
          ELSE /\ idom(T, n) # Undefined
               /\ T.g.heap[idom(T, n)].key = ImmediateDominator(G, k)

\* C3: for every rooted graph in which every node is reachable from the
\* root, DominatorTree assigns to each non-root node the true immediate
\* dominator as idom, and the root has no idom.
C3_Idom ==
    (res.op = "DominatorTree" /\ AllReachable(g)) =>
        (phase = "built" /\ IdomsCorrect(g, dt))

Diamond(sch) ==
    Directed(KeyList(sch),
             <<<<KeyOf(sch, 1), KeyOf(sch, 2)>>, <<KeyOf(sch, 1), KeyOf(sch, 3)>>,
               <<KeyOf(sch, 2), KeyOf(sch, 4)>>, <<KeyOf(sch, 3), KeyOf(sch, 4)>> >>,
             KeyOf(sch, 1)).g

\* the dominator tree of the diamond A->B, A->C, B->D, C->D is built and
\* gives B, C and D the idom A
C3_Witness ==
    /\ phase = "built"
    /\ res.op = "DominatorTree"
    /\ g = Diamond("neg")
    /\ \A k \in {-2, -3, -4} : dt.g.heap[idom(dt, getNode(dt.g, k))].key = -1

\* C4: for every rooted graph with all nodes reachable and every pair of
\* nodes v, u of its DominatorTree, dominates(v, u) returns true exactly when
\* v dominates u in the graph, and false otherwise.
C4_Dominates ==
    (phase = "built" /\ AllReachable(g) /\ res.op = "dominates") =>
        res.r = IF Dom(g, dt.g.heap[res.v].key, dt.g.heap[res.u].key)
                THEN "true" ELSE "false"

\* the chain 4 -> 3 -> 2 -> 1 with root 4
Chain ==
    Directed(<<4, 3, 2, 1>>, <<<<4, 3>>, <<3, 2>>, <<2, 1>> >>, 4).g

\* on the chain 4 -> 3 -> 2 -> 1 with root 4, dominates(node 2, node 1) has
\* returned false
C4_Failing ==
    /\ phase = "built"
    /\ g = Chain
    /\ res.op = "dominates"
    /\ dt.g.heap[res.v].key = 2
    /\ dt.g.heap[res.u].key = 1
    /\ res.r = "false"

NoDuplicates(q) == \A i \in 1..Len(q), j \in 1..Len(q) : q[i] = q[j] => i = j

\* C5: for every rooted graph with all nodes reachable and every node n,
\* dominanceFrontier(n) returns a duplicate-free list that holds exactly the
\* nodes w such that n dominates a predecessor of w and does not strictly
\* dominate w, and a repeated call returns the same list.
C5_Frontier ==
    (phase = "built" /\ AllReachable(g)) =>
        /\ res.op = "dominanceFrontier" => res.r = "ok"
        /\ \A n \in dt.known :
              /\ NoDuplicates(dt.DF[n])
              /\ {dt.g.heap[w].key : w \in Range(dt.DF[n])}
                    = Frontier_of(g, dt.g.heap[n].key)
              /\ dominanceFrontier(dt, n).S = dt.DF[n]

\* the chain 4 -> 3 -> 2 -> 1 with root 4 and the loop 1 -> 1
ChainLoop ==
    Directed(<<4, 3, 2, 1>>, <<<<4, 3>>, <<3, 2>>, <<2, 1>>, <<1, 1>> >>, 4).g

\* on the chain with the loop, dominanceFrontier(node 2) has returned node 1,
\* which node 2 strictly dominates
C5_Failing ==
    /\ phase = "built"
    /\ g = ChainLoop
    /\ res.op = "dominanceFrontier"
    /\ dt.g.heap[res.v].key = 2
    /\ {dt.g.heap[w].key : w \in Range(dt.DF[res.v])} = {1}
    /\ Frontier_of(g, 2) = {}

\* C9: a node unreachable from the root is silently omitted: for every
\* rooted graph, DFSpanningTree and DominatorTree complete without raising an
\* error, the unreachable nodes are absent from the tree and get no idom, and
\* the idoms of the reachable nodes are those of the reachable subgraph.
C9_Unreachable ==
    (res.op = "DominatorTree" /\ Rooted(g)) =>
        (phase = "built" /\ IdomsCorrect(g, dt))

\* node -4 is unreachable from the root -1 and has an edge into node -3
Dangling ==
    Directed(<<-1, -2, -3, -4>>, <<<<-1, -2>>, <<-2, -3>>, <<-4, -3>> >>, -1).g

\* new DominatorTree has raised a TypeError on the graph with the
\* unreachable predecessor
C9_Failing ==
    /\ g = Dangling
    /\ res.op = "DominatorTree"
    /\ res.r = "TypeError"
    /\ phase = "failed"

\* how many times x occurs in the sequence q
Count(q, x) == Cardinality({i \in 1..Len(q) : q[i] = x})

\* C10: after any sequence of addNode and addEdge calls every node in an
\* outbound or inbound list is the node stored in the graph under its key,
\* and B is in A's outbound list as many times as A is in B's inbound list.
C10_Consistent ==
    \A a \in LiveKeys(g) :
        LET A == g.nodes[a] IN
        /\ \A o \in Range(g.heap[A].outbound) \cup Range(g.heap[A].inbound) :
              o # Undefined /\ g.nodes[g.heap[o].key] = o
        /\ \A b \in LiveKeys(g) :
              Count(g.heap[A].outbound, g.nodes[b]) = Count(g.heap[g.nodes[b]].inbound, A)

\* addEdge from an existing node to an absent key has raised a TypeError
\* after pushing undefined onto the outbound list of the source
C10_Failing ==
    /\ res.op = "addEdge"
    /\ res.r = "TypeError"
    /\ \E a \in LiveKeys(g) : Undefined \in Range(g.heap[g.nodes[a]].outbound)

(***************************************************************************)
(* The all-ones mask of correct_bitwise.                                   *)
(***************************************************************************)
IsMaskXor(e) ==
    /\ e.op = "Xor"
    /\ e.args[1].op = "Reg"
    /\ e.args[2] = Val(Mask(e.args[1].size), e.args[1].size)

\* C11: for every width w in {8, 16, 32, 64} and every unknown leaf x of
\* size w, correct_bitwise rewrites Xor(x, Value(2^w - 1, w)) to Not(x): the
\* mask (1 << w) - 1 it compares against equals 2^w - 1 and is not 0, and
\* reduce_expr does not return with anything but Not(x).
C11_AllOnesMask ==
    IsMaskXor(input) =>
        /\ Int2Num(AllOnes(input.args[1].size)) = Mask(input.args[1].size)
        /\ AllOnes(input.args[1].size) # 0
        /\ correct_bitwise(input) = UExpr("Not", input.args[1])
        /\ pc = "returned" => root = UExpr("Not", input.args[1])

\* reduce_expr(Xor(r1, Value(0xffffffff, 32))) has returned the expression
\* unchanged: (1 << 32) - 1 is 0
C11_Failing ==
    /\ pc = "returned"
    /\ input = BExpr("Xor", Reg(1, 32), Val(Mask(32), 32))
    /\ root = input
    /\ AllOnes(32) = 0
    /\ correct_bitwise(input) = Null

(***************************************************************************)
(* The root of a graph and of the trees built from it.  The graphs are     *)
(* constructed with the first key of the node list as the root key.        *)
(***************************************************************************)
\* the key passed as root to the constructor of G
RootKey(G) == G.order[1]

\* G has a root, the node stored under key k
RootIs(G, k) == G.root # Undefined /\ G.root = G.nodes[k] /\ G.heap[G.root].key = k

\* C12: Directed(nodes, edges, k) returns a graph whose root is the node
\* stored under key k, the integer key 0 included; DFSpanningTree and
\* DominatorTree built from it start at that node, and the root of the
\* DominatorTree is the node with key k.
C12_Root ==
    /\ RootIs(g, RootKey(g))
    /\ res.op = "DominatorTree" =>
          /\ ~DFSpanningTree(g).err
          /\ DFSpanningTree(g).keys_dfs[1] = RootKey(g)
          /\ phase = "built"
          /\ RootIs(dt.g, RootKey(g))

\* the graph with keys 0, 1, 2, 3, the edge 0 -> 1 and the root key 0
ZeroRooted ==
    Directed(<<0, 1, 2, 3>>, <<<<0, 1>> >>, 0).g

\* Directed left the root of the graph with root key 0 undefined, and
\* new DominatorTree has raised a TypeError on it
C12_Failing ==
    /\ g = ZeroRooted
    /\ g.root = Undefined
    /\ res.op = "DominatorTree"
    /\ res.r = "TypeError"

(***************************************************************************)
(* The sizes of the Values reduce_expr leaves.                             *)
(***************************************************************************)
\* the sizes of the Values in e
ValSizes(e) == {o.size : o \in {v \in Subexprs(e) : IsVal(v)}}

\* the sizes of the leaves of e
LeafSizes(e) == {o.size : o \in {v \in Subexprs(e) : v.args = <<>>}}

\* e is EQ(Sub(x, Value(c, w)), Value(0, w))
IsEqSubZero(e) ==
    /\ e.op = "EQ"
    /\ e.args[1].op = "Sub"
    /\ IsVal(e.args[1].args[2])
    /\ e.args[2] = Val(Int2Num(0), e.args[1].args[2].size)

\* C13: if every Value of the input has a defined size, every Value of the
\* tree reduce_expr leaves has a defined size, that of an operand of the
\* input, and reduce_expr(EQ(Sub(x, Value(c, w)), Value(0, w))) returns and
\* leaves a tree structurally equal to EQ(x, Value(c, w)).
C13_DefinedSizes ==
    UndefSize \notin ValSizes(input) =>
        /\ pc = "returned" =>
              /\ UndefSize \notin ValSizes(root)
              /\ ValSizes(root) \subseteq LeafSizes(input)
        /\ IsEqSubZero(input) =>
              reduce_expr(input) =
                  [returns |-> TRUE,
                   root    |-> BExpr("EQ", reduce_expr(input.args[1].args[1]).root,
                                           input.args[1].args[2])]

\* reduce_expr(BoolAnd(EQ(Sub(r1, Value(1, 32)), Value(0, 32)), r2)) has
\* returned BoolAnd(EQ(r1, Value(1)), r2) whose Value has no size
C13_Failing ==
    /\ pc = "returned"
    /\ input = BExpr("BoolAnd",
                     BExpr("EQ", BExpr("Sub", Reg(1, 32), Val(Int2Num(1), 32)),
                                 Val(Int2Num(0), 32)),
                     Reg(2, 32))
    /\ root = BExpr("BoolAnd", BExpr("EQ", Reg(1, 32), Val(Int2Num(1), UndefSize)), Reg(2, 32))

====
